---- MODULE Spec2Model ----
(***************************************************************************)
(* A model of the two Streamlit scripts of the trip-cost estimator:        *)
(*   src/app_update.py  (vehicle lookup, stops, scraped fuel price)        *)
(*   src/app.py         (start/end only, price typed in by the user)       *)
(* One behaviour is one run of one script, top to bottom.  The external    *)
(* services (vehicle catalog, address search, geocoder, directions, price  *)
(* page) are the environment: every response is drawn from a small set.    *)
(* Python floats are modelled as exact rationals <<numerator, denominator>>*)
(* and None as the empty tuple <<>>.                                        *)
(***************************************************************************)
EXTENDS Integers, Sequences, FiniteSets, TLC

\* ---------------------------------------------------------------- bounds
\* Number of distinct addresses the address search can offer.
NumAddr == 2
\* Largest "Number of Stops" the model enumerates (the widget allows 0..5).
MaxStops == 2
\* Longest address list handed to get_average_fuel_price in SpecAvg.
MaxAddrs == 3

\* ------------------------------------------------------- program constants
\* st.number_input("Number of Stops", 0, 5, 0)
NumStopsLimit == 5
\* min_value of the manual MPG inputs
ManualMpgMin == 5
\* HTTP status the code compares against
HttpOk == 200

None == <<>>
Some(x) == <<x>>

Min(a, b) == IF a < b THEN a ELSE b
Abs(n) == IF n < 0 THEN -n ELSE n

RECURSIVE GCD(_, _)
GCD(a, b) == IF b = 0 THEN a ELSE GCD(b, a % b)

\* ------------------------------------------------------------- rationals
Rat(n, d) ==
    LET g == GCD(Abs(n), Abs(d))
        s == IF d < 0 THEN -1 ELSE 1
    IN  <<(s * n) \div g, (s * d) \div g>>
RatMul(a, b) == Rat(a[1] * b[1], a[2] * b[2])
RatDiv(a, b) == Rat(a[1] * b[2], a[2] * b[1])
RatAdd(a, b) == Rat(a[1] * b[2] + b[1] * a[2], a[2] * b[2])
RatInt(n) == <<n, 1>>
RatZero == <<0, 1>>
\* Python truthiness of a float-or-None value: None and 0.0 are falsy.
Truthy(x) == x # None /\ x[1] # 0
RatNeg(x) == x[1] < 0
RatPos(x) == x[1] > 0

\* ------------------------------------------------- text to float (float())
Digits == {"0", "1", "2", "3", "4", "5", "6", "7", "8", "9"}
DigitVal(c) ==
    CASE c = "0" -> 0 [] c = "1" -> 1 [] c = "2" -> 2 [] c = "3" -> 3
      [] c = "4" -> 4 [] c = "5" -> 5 [] c = "6" -> 6 [] c = "7" -> 7
      [] c = "8" -> 8 [] c = "9" -> 9

RECURSIVE DigitsToInt(_)
DigitsToInt(s) ==
    IF s = <<>> THEN 0
    ELSE 10 * DigitsToInt(SubSeq(s, 1, Len(s) - 1)) + DigitVal(s[Len(s)])

RECURSIVE Pow10(_)
Pow10(k) == IF k = 0 THEN 1 ELSE 10 * Pow10(k - 1)

IsDigit(c) == c \in Digits
IsDot(c) == c = "."
IsDigitOrDot(c) == c \in Digits \cup {"."}

\* float(text) for a text of characters: None stands for ValueError.
\* Accepts an optional leading sign, digits and at most one point, and at
\* least one digit.
PyFloat(text) ==
    LET neg  == text # <<>> /\ text[1] = "-"
        body == IF text # <<>> /\ text[1] \in {"-", "+"} THEN Tail(text) ELSE text
        digs == SelectSeq(body, IsDigit)
        dots == SelectSeq(body, IsDot)
        dotAt == CHOOSE i \in 1..Len(body) : body[i] = "."
        frac == IF dots = <<>> THEN 0 ELSE Len(body) - dotAt
        val  == Rat(DigitsToInt(digs), Pow10(frac))
    IN  IF \/ digs = <<>>
           \/ Len(dots) > 1
           \/ Len(digs) + Len(dots) # Len(body)
        THEN None
        ELSE Some(IF neg THEN <<-val[1], val[2]>> ELSE val)

\* ----------------------------------------------------------------- data
Addr == 1..NumAddr
NoAddr == 0
\* Geocoder geometry of an address: latitude and longitude differ.
LatOf(a) == 30 + a
LngOf(a) == -(90 + a)

States == {"Texas", "Ohio"}
NoState == "None"
Lower(s) ==
    CASE s = "Texas" -> "texas"
      [] s = "Ohio" -> "ohio"
      [] OTHER -> s

Grades == {"Regular", "Mid-Grade", "Premium", "Diesel"}

\* A geocoder response: the call raised, or a list of results, each with a
\* geometry and a components mapping that may lack "state".
GeoRaise == [exc |-> TRUE, results |-> <<>>]
GeoEmpty == [exc |-> FALSE, results |-> <<>>]
GeoHit(a, s) ==
    [exc |-> FALSE,
     results |-> <<[geometry |-> [lat |-> LatOf(a), lng |-> LngOf(a)],
                    components |-> [state |-> s]]>>]
GeoResponses(a) ==
    {GeoRaise, GeoEmpty} \cup {GeoHit(a, s) : s \in States \cup {NoState}}

\* The price page: a transport failure, a non-200 answer, or a table.  A
\* row is its <td> cells: the state name, then Regular, Mid-Grade, Premium,
\* Diesel.  A cell is its text, character by character.
HeaderRow == <<>>
RowTexas ==
    <<"Texas", <<"$", "3", ".", "0", "0">>, <<"$", "3", ".", "4", "0">>,
      <<"$", "3", ".", "8", "0">>, <<"$", "3", ".", "6", "0">>>>
RowOhio ==
    <<"Ohio", <<"$", "3", ".", "2", "0">>, <<"$", "0", ".", "0", "0">>,
      <<"N", "/", "A">>, <<"$", "4", ".", "0", "0">>>>
Tables ==
    {<<HeaderRow>>, <<HeaderRow, RowTexas>>, <<HeaderRow, RowOhio>>,
     <<HeaderRow, RowTexas, RowOhio>>}
AaaResponses ==
    {[exc |-> TRUE, status |-> 0, rows |-> <<>>],
     [exc |-> FALSE, status |-> 500, rows |-> <<>>]}
    \cup {[exc |-> FALSE, status |-> HttpOk, rows |-> t] : t \in Tables}

\* ------------------------------------------------ geocoding (app_update)
get_coordinates(resp) ==
    IF resp.exc THEN None
    ELSE IF resp.results # <<>>
         THEN <<resp.results[1].geometry.lat, resp.results[1].geometry.lng>>
         ELSE None

extract_full_state_name(resp) ==
    IF resp.exc THEN NoState
    ELSE IF resp.results # <<>>
         THEN resp.results[1].components.state
         ELSE NoState

\* ------------------------------------------------------- price scraping
grade_column_map(grade) ==
    CASE grade = "Regular" -> 1
      [] grade = "Mid-Grade" -> 2
      [] grade = "Premium" -> 3
      [] grade = "Diesel" -> 4
      [] OTHER -> 0

RECURSIVE FirstMatch(_, _, _)
\* Index of the first row with at least five cells whose name matches, or 0.
FirstMatch(rows, state_name, i) ==
    IF i > Len(rows) THEN 0
    ELSE IF Len(rows[i]) >= 5 /\ Lower(rows[i][1]) = Lower(state_name)
         THEN i
         ELSE FirstMatch(rows, state_name, i + 1)

fetch_aaa_fuel_price(state_name, grade, resp) ==
    LET col_idx == grade_column_map(grade)
        r == FirstMatch(resp.rows, state_name, 1)
        price_text == SelectSeq(resp.rows[r][col_idx + 1], IsDigitOrDot)
    IN  IF col_idx = 0 THEN None
        ELSE IF resp.exc THEN None
        ELSE IF resp.status # HttpOk THEN None
        ELSE IF r = 0 THEN None
        ELSE PyFloat(price_text)

\* Lines 200-201: a truthy state not yet in the list is appended.
DetectStepNoDedup(acc, state) ==
    IF state # NoState /\ state # "" THEN Append(acc, state) ELSE acc
DetectStep(acc, state) ==
    IF state # NoState /\ state # "" /\ ~(\E i \in 1..Len(acc) : acc[i] = state)
    THEN Append(acc, state)
    ELSE acc

RECURSIVE DetectStates(_, _, _)
\* The loop of get_average_fuel_price over the addresses: geo is the
\* geocoder's answer per address, acc the list built so far.
DetectStates(addresses, geo, acc) ==
    IF addresses = <<>> THEN acc
    ELSE DetectStates(Tail(addresses), geo,
             DetectStep(acc, extract_full_state_name(geo[Head(addresses)])))

FetchPrices(detected_states, grade, aaa) ==
    [i \in 1..Len(detected_states) |->
        fetch_aaa_fuel_price(detected_states[i], grade, aaa)]

IsPresent(p) == p # None
FilterPrices(raw) == SelectSeq(raw, IsPresent)

RECURSIVE SumPrices(_)
SumPrices(prices) ==
    IF prices = <<>> THEN RatZero
    ELSE RatAdd(SumPrices(SubSeq(prices, 1, Len(prices) - 1)),
                prices[Len(prices)][1])

AveragePrices(prices) ==
    IF prices # <<>>
    THEN RatDiv(SumPrices(prices), RatInt(Len(prices)))
    ELSE None

get_average_fuel_price(addresses, grade, geo, aaa) ==
    AveragePrices(FilterPrices(FetchPrices(DetectStates(addresses, geo, <<>>), grade, aaa)))

\* ------------------------------------------- vehicle catalog (app_update)
\* A catalog response: requests.get raised, or a status and the <value>
\* texts of the menu.
CatalogRaise == [exc |-> TRUE, status |-> 0, values |-> <<>>]
CatalogResponses(vals) ==
    {CatalogRaise,
     [exc |-> FALSE, status |-> 500, values |-> <<>>],
     [exc |-> FALSE, status |-> HttpOk, values |-> <<>>],
     [exc |-> FALSE, status |-> HttpOk, values |-> vals]}

\* What a call hands back: an exception that propagates, or a value.
Raised == [raised |-> TRUE, value |-> <<>>]
Returned(v) == [raised |-> FALSE, value |-> v]

get_makes(resp) ==
    IF resp.exc THEN Raised
    ELSE IF resp.status # HttpOk THEN Returned(<<>>)
    ELSE Returned(resp.values)

get_models(resp) ==
    IF resp.exc THEN Raised
    ELSE IF resp.status # HttpOk THEN Returned(<<>>)
    ELSE Returned(resp.values)

RECURSIVE SortDesc(_)
SortDesc(s) ==
    IF s = <<>> THEN <<>>
    ELSE LET m == CHOOSE i \in 1..Len(s) : \A j \in 1..Len(s) : s[i] >= s[j]
         IN  <<s[m]>> \o SortDesc(SubSeq(s, 1, m - 1) \o SubSeq(s, m + 1, Len(s)))

get_years(resp) ==
    IF resp.exc THEN Raised
    ELSE IF resp.status # HttpOk THEN Returned(<<>>)
    ELSE Returned(SortDesc(resp.values))

\* The vehicle record: requests.get raised, or the text of <comb08>
\* (<<>> when the element is missing or empty).
Comb08Texts == {<<>>, <<"0">>, <<"-", "1">>, <<"2", "5">>}
VehicleResponses ==
    {[exc |-> TRUE, comb08 |-> <<>>]}
    \cup {[exc |-> FALSE, comb08 |-> t] : t \in Comb08Texts}

\* The whole body runs under try/except: every failure is None.
get_vehicle_mpg(options, vehicle) ==
    IF options.exc THEN None
    ELSE IF options.status # HttpOk THEN None
    ELSE IF options.values = <<>> THEN None
    ELSE IF vehicle.exc THEN None
    ELSE IF vehicle.comb08 # <<>>
         THEN LET f == PyFloat(vehicle.comb08) IN IF f = None THEN None ELSE f[1]
         ELSE None

current_year == 2023
MakeValues == <<"Honda">>
ModelValues == <<"Civic">>
YearValues == <<2023>>
NoChoice == "None"
NoYear == 0
ManualMpgs == {RatInt(ManualMpgMin)}

\* st.selectbox over a list: nothing when the list is empty, else the
\* option the user picks.
Options(list, none) ==
    IF list = <<>> THEN {none} ELSE {list[i] : i \in 1..Len(list)}

VehicleCrash ==
    [crashed |-> TRUE, make |-> NoChoice, model |-> NoChoice, year |-> NoYear,
     mpg |-> None, prompted |-> FALSE]
VehicleResult(make, model, year, mpg, prompted) ==
    [crashed |-> FALSE, make |-> make, model |-> model, year |-> year,
     mpg |-> mpg, prompted |-> prompted]

\* Lines 101-110 once make, model and year are settled: the lookup, and
\* the manual prompt when the lookup gives a falsy value.
MpgStep(make, model, year, rOptions, rVehicle) ==
    IF make # NoChoice /\ model # NoChoice /\ year # NoYear
    THEN LET found == get_vehicle_mpg(rOptions, rVehicle)
         IN  IF Truthy(found)
             THEN {VehicleResult(make, model, year, found, FALSE)}
             ELSE {VehicleResult(make, model, year, m, TRUE) : m \in ManualMpgs}
    ELSE {VehicleResult(make, model, year, None, FALSE)}

\* Lines 80-110: every way the vehicle section can end, given the catalog's
\* answers.
VehicleSection(rMakes, rYears0, rModels, rYears, rOptions, rVehicle) ==
    LET makes == get_makes(rMakes)
        years0 == get_years(rYears0)
        models == get_models(rModels)
        years == get_years(rYears)
    IN  IF makes.raised THEN {VehicleCrash}
        ELSE UNION {
          IF make = NoChoice
          THEN {VehicleResult(NoChoice, NoChoice, NoYear, m, TRUE) : m \in ManualMpgs}
          ELSE IF years0.raised \/ models.raised THEN {VehicleCrash}
          ELSE UNION {
            IF model = NoChoice
            THEN MpgStep(make, model, NoYear, rOptions, rVehicle)
            ELSE IF years.raised THEN {VehicleCrash}
            ELSE UNION {
              MpgStep(make, model, year, rOptions, rVehicle)
              : year \in Options(years.value, current_year) }
            : model \in Options(models.value, NoChoice) }
          : make \in Options(makes.value, NoChoice) }

\* ------------------------------------------------ address search
\* A search response: requests.get raised, or a status and display names.
NomNames == [i \in 1..NumAddr |-> i]
NomResponses ==
    {[exc |-> TRUE, status |-> 0, names |-> <<>>],
     [exc |-> FALSE, status |-> 500, names |-> <<>>],
     [exc |-> FALSE, status |-> HttpOk, names |-> <<>>],
     [exc |-> FALSE, status |-> HttpOk, names |-> NomNames]}
Queries == {"", "q"}

\* app_update.py: no try around the request.
nominatim_search(query, resp) ==
    IF query = "" THEN Returned(<<>>)
    ELSE IF resp.exc THEN Raised
    ELSE IF resp.status = HttpOk THEN Returned(resp.names)
    ELSE Returned(<<>>)

\* app.py: the request runs under try/except.
app_nominatim_search(query, resp) ==
    IF resp.exc THEN Returned(<<>>)
    ELSE IF resp.status = HttpOk THEN Returned(resp.names)
    ELSE Returned(<<>>)

\* One text input with its select box: the search runs only for a
\* non-empty text, the select box shows only for a non-empty list.
SlotOutcomes ==
    UNION { LET opts == IF q # "" THEN nominatim_search(q, r) ELSE Returned(<<>>)
            IN  IF opts.raised THEN {[raised |-> TRUE, sel |-> NoAddr]}
                ELSE {[raised |-> FALSE, sel |-> a] : a \in Options(opts.value, NoAddr)}
            : q \in Queries, r \in NomResponses }

AppSlotOutcomes ==
    UNION { LET opts == IF q # "" THEN app_nominatim_search(q, r) ELSE Returned(<<>>)
            IN  IF opts.raised THEN {[raised |-> TRUE, sel |-> NoAddr]}
                ELSE {[raised |-> FALSE, sel |-> a] : a \in Options(opts.value, NoAddr)}
            : q \in Queries, r \in NomResponses }

RECURSIVE CollectStops(_, _)
\* The stops loop: a slot with no selection adds nothing.
CollectStops(slots, i) ==
    IF i > Len(slots) THEN <<>>
    ELSE (IF slots[i].sel # NoAddr THEN <<slots[i].sel>> ELSE <<>>)
         \o CollectStops(slots, i + 1)

\* ------------------------------------------------------------ directions
DirRaise == [exc |-> TRUE, features |-> <<>>]
DirNoFeatures == [exc |-> FALSE, features |-> <<>>]
DirOk(d) ==
    [exc |-> FALSE,
     features |-> <<[properties |-> [summary |-> [distance |-> d, duration |-> 600]]]>>]
Distances == {1000}
DirResponses == {DirRaise, DirNoFeatures} \cup {DirOk(d) : d \in Distances}

\* ors_coords = [(lng, lat) for lat, lng in coords]
OrsCoordsUnswapped(cs) == cs
OrsCoords(cs) == [i \in 1..Len(cs) |-> <<cs[i][2], cs[i][1]>>]
\* app.py: [(start_coords[1], start_coords[0]), (end_coords[1], end_coords[0])]
AppOrsCoords(start_coords, end_coords) ==
    <<<<start_coords[2], start_coords[1]>>, <<end_coords[2], end_coords[1]>>>>

NoneIn(cs) == \E i \in 1..Len(cs) : cs[i] = None

\* dist_km * 0.621371
MilesPerKm == <<621371, 1000000>>
DistKm(summary) == Rat(summary.distance, 1000)
DistMiles(summary) == RatMul(DistKm(summary), MilesPerKm)
DurationMin(summary) == Rat(summary.duration, 60)
\* fuel_used = dist_miles / mpg if mpg else 0
FuelUsed(miles, m) == IF Truthy(m) THEN RatDiv(miles, m) ELSE RatZero

\* avg_price = 3.60
FallbackPrice == <<18, 5>>
\* Lines 236-241: the price used, and whether the warning is shown.
PriceUsedZeroWhenAbsent(ret) == IF Truthy(ret) THEN ret ELSE RatZero
PriceUsed(ret) == IF Truthy(ret) THEN ret ELSE FallbackPrice
WarningShown(ret) == ~Truthy(ret)

\* zip(all_addresses, coords): one marker per pair.
MarkersEndsOnly(addresses, cs) ==
    <<[popup |-> addresses[1], location |-> cs[1]],
      [popup |-> addresses[Len(addresses)], location |-> cs[Len(cs)]]>>
Markers(addresses, cs) ==
    [i \in 1..Min(Len(addresses), Len(cs)) |-> [popup |-> addresses[i], location |-> cs[i]]]

Repeat(e, n) == [i \in 1..n |-> e]

\* ------------------------------------------------------------------ state
VARIABLES
    script,           \* which script runs: "app_update" or "app"
    pc,               \* position in the script
    selected_make, selected_model, selected_year,
    mpg,              \* mpg (app_update) / vehicle_mpg (app): None or a number
    mpg_prompted,     \* the manual MPG input was shown
    fuel_grade,
    start, num_stops, stops, end,
    all_addresses, coords, ors_coords,
    route,            \* the directions answer, None before
    dist_miles, duration_min, fuel_used,
    detected_states, looked_up, raw_prices,
    avg_ret,          \* what get_average_fuel_price returned
    avg_price,        \* the price used for the cost
    trip_cost, warning,
    error,            \* the st.error message, "" when none
    summary_shown, markers,
    trace,            \* external calls and computations of the handler, in order
    geo_env, aaa_env, \* SpecAvg: the geocoder's answer per address, the price page
    avg_first         \* SpecAvg: the average of the list first given

vars ==
    <<script, pc, selected_make, selected_model, selected_year, mpg, mpg_prompted,
      fuel_grade, start, num_stops, stops, end, all_addresses, coords, ors_coords,
      route, dist_miles, duration_min, fuel_used, detected_states, looked_up,
      raw_prices, avg_ret, avg_price, trip_cost, warning, error, summary_shown, markers,
      trace, geo_env, aaa_env, avg_first>>

vehicleVars == <<selected_make, selected_model, selected_year, mpg, mpg_prompted>>
inputVars == <<fuel_grade, start, num_stops, stops, end>>
geoVars == <<all_addresses, coords, ors_coords>>
routeVars == <<route, dist_miles, duration_min, fuel_used>>
priceVars == <<detected_states, looked_up, raw_prices, avg_ret, avg_price, trip_cost, warning>>
outVars == <<summary_shown, markers>>
envVars == <<geo_env, aaa_env, avg_first>>

Blank ==
    /\ selected_make = NoChoice /\ selected_model = NoChoice /\ selected_year = NoYear
    /\ mpg = None /\ mpg_prompted = FALSE
    /\ fuel_grade = "Regular"
    /\ start = NoAddr /\ num_stops = 0 /\ stops = <<>> /\ end = NoAddr
    /\ all_addresses = <<>> /\ coords = <<>> /\ ors_coords = <<>>
    /\ route = None /\ dist_miles = None /\ duration_min = None /\ fuel_used = None
    /\ detected_states = <<>> /\ looked_up = 0 /\ raw_prices = <<>>
    /\ avg_ret = None /\ avg_price = None /\ trip_cost = None /\ warning = FALSE
    /\ error = "" /\ summary_shown = FALSE /\ markers = <<>>
    /\ trace = <<>>

NoEnv ==
    /\ geo_env = [a \in Addr |-> GeoRaise]
    /\ aaa_env = [exc |-> TRUE, status |-> 0, rows |-> <<>>]
    /\ avg_first = None

Init ==
    /\ script \in {"app_update", "app"}
    /\ pc = IF script = "app_update" THEN "vehicle" ELSE "app_inputs"
    /\ Blank
    /\ NoEnv

\* ------------------------------------------------- app_update.py, top down
\* Lines 80-110.
VehicleInput ==
    /\ pc = "vehicle"
    /\ \E rMakes \in CatalogResponses(MakeValues),
          rYears0 \in CatalogResponses(YearValues),
          rModels \in CatalogResponses(ModelValues),
          rYears \in CatalogResponses(YearValues),
          rOptions \in CatalogResponses(<<"41190">>),
          rVehicle \in VehicleResponses :
        \E o \in VehicleSection(rMakes, rYears0, rModels, rYears, rOptions, rVehicle) :
            /\ pc' = IF o.crashed THEN "crashed" ELSE "grade"
            /\ selected_make' = o.make
            /\ selected_model' = o.model
            /\ selected_year' = o.year
            /\ mpg' = o.mpg
            /\ mpg_prompted' = o.prompted
    /\ UNCHANGED <<envVars, script, inputVars, geoVars, routeVars, priceVars, error, outVars, trace>>

\* Line 113.
GradeInput ==
    /\ pc = "grade"
    /\ fuel_grade' \in Grades
    /\ pc' = "locations"
    /\ UNCHANGED <<envVars, script, vehicleVars, start, num_stops, stops, end, geoVars,
                   routeVars, priceVars, error, outVars, trace>>

\* Lines 127-142.
LocationInput ==
    /\ pc = "locations"
    /\ \E so \in SlotOutcomes, eo \in SlotOutcomes,
          n \in 0..Min(MaxStops, NumStopsLimit) :
        \E slots \in [1..n -> SlotOutcomes] :
            IF so.raised \/ eo.raised \/ \E i \in 1..n : slots[i].raised
            THEN /\ pc' = "crashed"
                 /\ UNCHANGED <<start, num_stops, stops, end>>
            ELSE /\ pc' = "button"
                 /\ start' = so.sel
                 /\ num_stops' = n
                 /\ stops' = CollectStops(slots, 1)
                 /\ end' = eo.sel
    /\ UNCHANGED <<envVars, script, vehicleVars, fuel_grade, geoVars, routeVars, priceVars,
                   error, outVars, trace>>

\* Lines 213-214.
Button ==
    /\ pc = "button"
    /\ \E clicked \in BOOLEAN :
        IF clicked /\ start # NoAddr /\ end # NoAddr
        THEN /\ all_addresses' = <<start>> \o stops \o <<end>>
             /\ pc' = "geocode"
        ELSE /\ pc' = "done"
             /\ UNCHANGED all_addresses
    /\ UNCHANGED <<envVars, script, vehicleVars, inputVars, coords, ors_coords, routeVars,
                   priceVars, error, outVars, trace>>

\* Line 215, one address of the list comprehension.
Geocode ==
    /\ pc = "geocode"
    /\ Len(coords) < Len(all_addresses)
    /\ \E resp \in GeoResponses(all_addresses[Len(coords) + 1]) :
        coords' = Append(coords, get_coordinates(resp))
    /\ trace' = Append(trace, "geocode_coords")
    /\ UNCHANGED <<envVars, script, pc, vehicleVars, inputVars, all_addresses, ors_coords,
                   routeVars, priceVars, error, outVars>>

\* Whether the handler goes on to routing (line 217).
CoordsUsableFirstOnly(cs) == cs[1] # None
CoordsUsable(cs) == ~NoneIn(cs)

\* Lines 217-220.
CheckCoords ==
    /\ pc = "geocode"
    /\ Len(coords) = Len(all_addresses)
    /\ IF CoordsUsable(coords)
       THEN IF NoneIn(coords)
            THEN \* unpacking None at line 220 is a TypeError outside the try
                 /\ pc' = "crashed"
                 /\ UNCHANGED <<ors_coords, error>>
            ELSE /\ ors_coords' = OrsCoords(coords)
                 /\ pc' = "route"
                 /\ UNCHANGED error
       ELSE /\ error' = "Could not geocode one or more locations."
            /\ pc' = "done"
            /\ UNCHANGED ors_coords
    /\ UNCHANGED <<envVars, script, vehicleVars, inputVars, all_addresses, coords, routeVars,
                   priceVars, outVars, trace>>

\* Lines 222-233 and 256-257: the request, then the figures read from it.
Directions ==
    /\ pc = "route"
    /\ script = "app_update"
    /\ trace' = Append(trace, "directions")
    /\ \E resp \in DirResponses :
        IF resp.exc
        THEN /\ error' = "Routing failed"
             /\ pc' = "done"
             /\ UNCHANGED route
        ELSE /\ route' = Some(resp)
             /\ pc' = "metrics"
             /\ UNCHANGED error
    /\ UNCHANGED <<envVars, script, vehicleVars, inputVars, geoVars, dist_miles, duration_min,
                   fuel_used, priceVars, outVars>>

\* Metrics as it would be with the cost computed beside the fuel used,
\* before any price is resolved.
MetricsWithCost ==
    /\ pc = "metrics"
    /\ script = "app_update"
    /\ route[1].features # <<>>
    /\ LET summary == route[1].features[1].properties.summary
       IN  /\ dist_miles' = DistMiles(summary)
           /\ duration_min' = DurationMin(summary)
           /\ fuel_used' = FuelUsed(DistMiles(summary), mpg)
    /\ trace' = trace \o <<"metrics", "cost">>
    /\ pc' = "price"
    /\ UNCHANGED <<envVars, script, vehicleVars, inputVars, geoVars, route, priceVars,
                   error, outVars>>

Metrics ==
    /\ pc = "metrics"
    /\ script = "app_update"
    /\ IF route[1].features = <<>>
       THEN /\ error' = "Routing failed"
            /\ pc' = "done"
            /\ UNCHANGED <<dist_miles, duration_min, fuel_used, trace>>
       ELSE LET summary == route[1].features[1].properties.summary
            IN  /\ dist_miles' = DistMiles(summary)
                /\ duration_min' = DurationMin(summary)
                /\ fuel_used' = FuelUsed(DistMiles(summary), mpg)
                /\ trace' = Append(trace, "metrics")
                /\ pc' = "price"
                /\ UNCHANGED error
    /\ UNCHANGED <<envVars, script, vehicleVars, inputVars, geoVars, route, priceVars, outVars>>

\* Lines 198-201, one address of the loop of get_average_fuel_price.
RegionLookup ==
    /\ pc = "price"
    /\ looked_up < Len(all_addresses)
    /\ \E resp \in GeoResponses(all_addresses[looked_up + 1]) :
        detected_states' = DetectStep(detected_states, extract_full_state_name(resp))
    /\ looked_up' = looked_up + 1
    /\ trace' = Append(trace, "geocode_state")
    /\ UNCHANGED <<envVars, script, pc, vehicleVars, inputVars, geoVars, routeVars, raw_prices,
                   avg_ret, avg_price, trip_cost, warning, error, outVars>>

\* Line 204, one state of the list comprehension: each call requests the
\* price page again.
FetchPrice ==
    /\ pc = "price"
    /\ looked_up = Len(all_addresses)
    /\ Len(raw_prices) < Len(detected_states)
    /\ \E aaa \in AaaResponses :
        raw_prices' = Append(raw_prices,
            fetch_aaa_fuel_price(detected_states[Len(raw_prices) + 1], fuel_grade, aaa))
    /\ trace' = Append(trace, "price_page")
    /\ UNCHANGED <<envVars, script, pc, vehicleVars, inputVars, geoVars, routeVars, detected_states,
                   looked_up, avg_ret, avg_price, trip_cost, warning, error, outVars>>

\* Lines 205-210 and 235-241: the average, then the price used.
Cost ==
    /\ pc = "price"
    /\ looked_up = Len(all_addresses)
    /\ Len(raw_prices) = Len(detected_states)
    /\ LET ret == AveragePrices(FilterPrices(raw_prices))
       IN  /\ avg_ret' = ret
           /\ avg_price' = PriceUsed(ret)
           /\ trip_cost' = RatMul(fuel_used, PriceUsed(ret))
           /\ warning' = WarningShown(ret)
    /\ trace' = Append(trace, "cost")
    /\ pc' = "present"
    /\ UNCHANGED <<envVars, script, vehicleVars, inputVars, geoVars, routeVars, detected_states,
                   raw_prices, looked_up, error, outVars>>

\* Lines 243-254.
Present ==
    /\ pc = "present"
    /\ script = "app_update"
    /\ summary_shown' = TRUE
    /\ markers' = Markers(all_addresses, coords)
    /\ trace' = Append(trace, "present")
    /\ pc' = "done"
    /\ UNCHANGED <<envVars, script, vehicleVars, inputVars, geoVars, routeVars, priceVars, error>>

\* -------------------------------------------------------- app.py, top down
\* st.number_input("Vehicle MPG", min_value=5, max_value=100, value=25)
AppMpgs == {RatInt(ManualMpgMin), RatInt(25)}
\* st.number_input("Gas Price (USD/gallon)", min_value=0.0, value=3.70)
AppGasPrices == {RatZero, <<37, 10>>}

\* Lines 38-48.
AppInputs ==
    /\ pc = "app_inputs"
    /\ \E so \in AppSlotOutcomes, eo \in AppSlotOutcomes :
        IF so.raised \/ eo.raised
        THEN /\ pc' = "crashed"
             /\ UNCHANGED <<start, end>>
        ELSE /\ pc' = "app_button"
             /\ start' = so.sel
             /\ end' = eo.sel
    /\ mpg' \in AppMpgs
    /\ avg_price' \in AppGasPrices
    /\ UNCHANGED <<envVars, script, selected_make, selected_model, selected_year, mpg_prompted,
                   fuel_grade, num_stops, stops, geoVars, routeVars, detected_states,
                   looked_up, raw_prices, avg_ret, trip_cost, warning, error, outVars, trace>>

\* Line 51.
AppButton ==
    /\ pc = "app_button"
    /\ \E clicked \in BOOLEAN :
        pc' = IF clicked /\ start # NoAddr /\ end # NoAddr THEN "app_geocode" ELSE "done"
    /\ UNCHANGED <<envVars, script, vehicleVars, inputVars, geoVars, routeVars, priceVars,
                   error, outVars, trace>>

\* The coordinates read from a geocoder answer at lines 56-57; None stands
\* for the exception (the call raised, or result[0] of an empty list).
AppCoords(resp) ==
    IF resp.exc \/ resp.results = <<>> THEN None
    ELSE <<resp.results[1].geometry.lat, resp.results[1].geometry.lng>>

\* Lines 54-57 and 86-87: both lookups, then both index expressions.
AppGeocode ==
    /\ pc = "app_geocode"
    /\ \E r1 \in GeoResponses(start), r2 \in GeoResponses(end) :
        /\ trace' = trace \o (IF r1.exc THEN <<"geocode_coords">>
                              ELSE <<"geocode_coords", "geocode_coords">>)
        /\ coords' = <<AppCoords(r1), IF r1.exc THEN None ELSE AppCoords(r2)>>
        /\ IF r1.exc \/ r2.exc \/ r1.results = <<>> \/ r2.results = <<>>
           THEN /\ error' = "Error calculating route"
                /\ pc' = "done"
           ELSE /\ pc' = "app_route"
                /\ UNCHANGED error
    /\ UNCHANGED <<envVars, script, vehicleVars, inputVars, all_addresses, ors_coords, routeVars,
                   priceVars, outVars>>

\* Lines 60-64.
AppDirections ==
    /\ pc = "app_route"
    /\ ors_coords' = AppOrsCoords(coords[1], coords[2])
    /\ trace' = Append(trace, "directions")
    /\ \E resp \in DirResponses :
        IF resp.exc
        THEN /\ error' = "Error calculating route"
             /\ pc' = "done"
             /\ UNCHANGED route
        ELSE /\ route' = Some(resp)
             /\ pc' = "app_metrics"
             /\ UNCHANGED error
    /\ UNCHANGED <<envVars, script, vehicleVars, inputVars, all_addresses, coords, dist_miles,
                   duration_min, fuel_used, priceVars, outVars>>

\* Lines 67-71.
AppMetrics ==
    /\ pc = "app_metrics"
    /\ IF route[1].features = <<>>
       THEN /\ error' = "Error calculating route"
            /\ pc' = "done"
            /\ UNCHANGED <<dist_miles, duration_min, fuel_used, trip_cost, trace>>
       ELSE LET summary == route[1].features[1].properties.summary
            IN  /\ dist_miles' = DistMiles(summary)
                /\ duration_min' = DurationMin(summary)
                /\ fuel_used' = RatDiv(DistMiles(summary), mpg)
                /\ trip_cost' = RatMul(RatDiv(DistMiles(summary), mpg), avg_price)
                /\ trace' = trace \o <<"metrics", "cost">>
                /\ pc' = "app_present"
                /\ UNCHANGED error
    /\ UNCHANGED <<envVars, script, vehicleVars, inputVars, geoVars, route, detected_states,
                   looked_up, raw_prices, avg_ret, avg_price, warning, outVars>>

\* Lines 74-84.
AppPresent ==
    /\ pc = "app_present"
    /\ summary_shown' = TRUE
    /\ markers' = <<[popup |-> "Start", location |-> coords[1]],
                    [popup |-> "Destination", location |-> coords[2]]>>
    /\ trace' = Append(trace, "present")
    /\ pc' = "done"
    /\ UNCHANGED <<envVars, script, vehicleVars, inputVars, geoVars, routeVars, priceVars, error>>

Next ==
    \/ VehicleInput
    \/ GradeInput
    \/ LocationInput
    \/ Button
    \/ Geocode
    \/ CheckCoords
    \/ Directions
    \/ Metrics
    \/ RegionLookup
    \/ FetchPrice
    \/ Cost
    \/ Present
    \/ AppInputs
    \/ AppButton
    \/ AppGeocode
    \/ AppDirections
    \/ AppMetrics
    \/ AppPresent

Spec == Init /\ [][Next]_vars

\* ------------------------------------- get_average_fuel_price on its own
\* Address lists of length 1..MaxAddrs.
AddrLists == UNION {[1..n -> Addr] : n \in 1..MaxAddrs}
InList(a, list) == \E i \in 1..Len(list) : list[i] = a

avgOther ==
    <<script, vehicleVars, start, num_stops, stops, end, coords, ors_coords, routeVars,
      looked_up, avg_price, trip_cost, warning, error, outVars, trace>>

InitAvg ==
    /\ script = "app_update"
    /\ pc = "avg"
    /\ selected_make = NoChoice /\ selected_model = NoChoice /\ selected_year = NoYear
    /\ mpg = None /\ mpg_prompted = FALSE
    /\ fuel_grade \in Grades
    /\ start = NoAddr /\ num_stops = 0 /\ stops = <<>> /\ end = NoAddr
    /\ all_addresses \in AddrLists
    /\ coords = <<>> /\ ors_coords = <<>>
    /\ route = None /\ dist_miles = None /\ duration_min = None /\ fuel_used = None
    /\ detected_states = <<>> /\ looked_up = 0 /\ raw_prices = <<>>
    /\ avg_ret = None /\ avg_price = None /\ trip_cost = None /\ warning = FALSE
    /\ error = "" /\ summary_shown = FALSE /\ markers = <<>>
    /\ trace = <<>>
    /\ geo_env \in [Addr -> UNION {GeoResponses(a) : a \in Addr}]
    /\ \A a \in Addr :
          geo_env[a] \in (IF InList(a, all_addresses) THEN GeoResponses(a) ELSE {GeoRaise})
    /\ aaa_env \in AaaResponses
    /\ avg_first = None

\* get_average_fuel_price(all_addresses, fuel_grade) under the environment.
AvgApply ==
    /\ pc = "avg"
    /\ detected_states' = DetectStates(all_addresses, geo_env, <<>>)
    /\ raw_prices' = FetchPrices(detected_states', fuel_grade, aaa_env)
    /\ avg_ret' = get_average_fuel_price(all_addresses, fuel_grade, geo_env, aaa_env)
    /\ avg_first' = avg_ret'
    /\ pc' = "avg_done"
    /\ UNCHANGED <<avgOther, fuel_grade, all_addresses, geo_env, aaa_env>>

\* The same call on the list with two neighbours exchanged.
AvgSwap ==
    /\ pc = "avg_done"
    /\ \E i \in 1..(Len(all_addresses) - 1) :
        all_addresses' = [all_addresses EXCEPT ![i] = all_addresses[i + 1],
                                               ![i + 1] = all_addresses[i]]
    /\ detected_states' = DetectStates(all_addresses', geo_env, <<>>)
    /\ raw_prices' = FetchPrices(detected_states', fuel_grade, aaa_env)
    /\ avg_ret' = get_average_fuel_price(all_addresses', fuel_grade, geo_env, aaa_env)
    /\ UNCHANGED <<avgOther, pc, fuel_grade, geo_env, aaa_env, avg_first>>

\* The same call on the list with an address of the list repeated.
AvgRepeat ==
    /\ pc = "avg_done"
    /\ Len(all_addresses) < MaxAddrs
    /\ \E i \in 1..Len(all_addresses), at \in 0..Len(all_addresses) :
        all_addresses' = SubSeq(all_addresses, 1, at) \o <<all_addresses[i]>>
                         \o SubSeq(all_addresses, at + 1, Len(all_addresses))
    /\ detected_states' = DetectStates(all_addresses', geo_env, <<>>)
    /\ raw_prices' = FetchPrices(detected_states', fuel_grade, aaa_env)
    /\ avg_ret' = get_average_fuel_price(all_addresses', fuel_grade, geo_env, aaa_env)
    /\ UNCHANGED <<avgOther, pc, fuel_grade, geo_env, aaa_env, avg_first>>

NextAvg ==
    \/ AvgApply
    \/ AvgSwap
    \/ AvgRepeat

SpecAvg == InitAvg /\ [][NextAvg]_vars

\* ================================================================ claims
InTrace(e) == \E i \in 1..Len(trace) : trace[i] = e
Ended == pc \in {"done", "crashed"}
\* The waypoints of the request in the order start, stops, end.
Waypoints == <<start>> \o stops \o <<end>>
\* A waypoint was geocoded and came back without a coordinate.
GeocodeFailed == \E i \in 1..Len(coords) : coords[i] = None
\* The routing request was made and gave no usable route.
RoutingFailed ==
    /\ InTrace("directions")
    /\ \/ route = None
       \/ route # None /\ route[1].features = <<>> /\ pc # "metrics" /\ pc # "app_metrics"
NothingPresented ==
    /\ fuel_used = None
    /\ trip_cost = None
    /\ ~summary_shown
    /\ markers = <<>>

\* C1: when geocoding of a waypoint fails or gives no result, or routing
\* fails, the run ends with a reported error and neither an estimate nor a
\* map; the routing request and the cost are never made while a waypoint's
\* coordinate is missing.
C1_FailureAborts ==
    /\ (Ended /\ (GeocodeFailed \/ RoutingFailed)) => (error # "" /\ NothingPresented)
    /\ GeocodeFailed => (~InTrace("directions") /\ ~InTrace("cost") /\ NothingPresented)
    /\ InTrace("directions") => (Len(coords) = Len(Waypoints) /\ ~GeocodeFailed)
    /\ RoutingFailed => NothingPresented

\* A stop could not be geocoded and the run ended with the error.
C1_Witness ==
    /\ pc = "done"
    /\ script = "app_update"
    /\ Len(coords) = 3
    /\ coords[1] # None /\ coords[2] = None /\ coords[3] # None
    /\ error = "Could not geocode one or more locations."

\* C4: the i-th pair sent to the directions service is (longitude, latitude)
\* of the i-th waypoint in the order start, stops, end, the geocoded pair
\* being (latitude, longitude).
C4_LngLatOrder ==
    InTrace("directions") =>
        /\ Len(ors_coords) = Len(Waypoints)
        /\ \A i \in 1..Len(Waypoints) :
            /\ coords[i] = <<LatOf(Waypoints[i]), LngOf(Waypoints[i])>>
            /\ ors_coords[i] = <<LngOf(Waypoints[i]), LatOf(Waypoints[i])>>

\* A request with two different stops reached the directions service.
C4_Witness ==
    /\ InTrace("directions")
    /\ script = "app_update"
    /\ Len(stops) = 2
    /\ stops[1] # stops[2]
    /\ start # end

\* C8: with n stops in the list, the routing request carries n + 2
\* waypoints and the map gets n + 2 markers, one per waypoint, 0 <= n <= 5.
C8_WaypointAndMarkerCount ==
    /\ Len(stops) <= num_stops /\ num_stops <= NumStopsLimit
    /\ InTrace("directions") => Len(ors_coords) = Len(stops) + 2
    /\ summary_shown =>
        /\ Len(markers) = Len(stops) + 2
        /\ \A i \in 1..Len(markers) : markers[i].location = coords[i]

\* One stop between start and end: three waypoints, three markers.
C8_Witness ==
    /\ summary_shown
    /\ Len(stops) = 1
    /\ Len(ors_coords) = 3
    /\ Len(markers) = 3

\* The price-resolution step ran and no detected state gave a price.
NoPriceResolved == \A i \in 1..Len(raw_prices) : raw_prices[i] = None

\* C2: when no region resolves to a price, get_average_fuel_price returns
\* None, the cost uses 3.60 per gallon and the warning is shown; the warning
\* is shown only when 3.60 is the price used.
C2_FallbackPrice ==
    (script = "app_update" /\ InTrace("cost")) =>
        /\ NoPriceResolved =>
            /\ avg_ret = None
            /\ avg_price = <<18, 5>>
            /\ trip_cost = RatMul(fuel_used, <<18, 5>>)
            /\ warning
        /\ warning => (avg_price = <<18, 5>> /\ trip_cost = RatMul(fuel_used, <<18, 5>>))
        /\ ~warning => (avg_price = avg_ret /\ avg_ret # None)

\* Two states were detected, neither had a price, and the estimate was
\* shown with the fallback price.
C2_Witness ==
    /\ pc = "done"
    /\ summary_shown
    /\ Len(detected_states) = 2
    /\ NoPriceResolved
    /\ warning
    /\ RatPos(trip_cost)

\* C5 (as claimed): the efficiency that divides the distance is strictly
\* positive, and neither fuel used nor cost is negative.
C5_PositiveEfficiency ==
    fuel_used # None =>
        /\ Truthy(mpg) => RatPos(mpg)
        /\ ~RatNeg(fuel_used)
        /\ trip_cost # None => ~RatNeg(trip_cost)

\* C6 (as claimed): once the vehicle section is over, an efficiency is
\* there, found or typed in, and no estimate is computed without one.
C6_EfficiencyPresent ==
    /\ (script = "app_update" /\ pc \notin {"vehicle", "crashed", "avg", "avg_done"})
          => (mpg # None /\ (mpg_prompted \/ Truthy(mpg)))
    /\ fuel_used # None => mpg # None

\* C7 (as claimed): no failure of an external call ends the run with an
\* uncaught exception.
C7_NoCrash == pc # "crashed"

\* C9 (as claimed): every price fetch_aaa_fuel_price returns is above zero.
C9_PricesPositive ==
    \A i \in 1..Len(raw_prices) : raw_prices[i] # None => RatPos(raw_prices[i][1])

\* Every event of kind A in the trace comes before every event of kind B.
Precedes(A, B) ==
    \A j \in 1..Len(trace) : trace[j] \in B => \A i \in j..Len(trace) : trace[i] \notin A
IsCoordLookup(e) == e = "geocode_coords"
IsStateLookup(e) == e = "geocode_state"
IsPricePage(e) == e = "price_page"

\* C10 (as claimed): all geocoding before the routing call and none after
\* it, price resolution after the route, and nothing of the estimate
\* computed or shown before geocoding, routing and price resolution are over.
C10_StrictlyLinear ==
    /\ Precedes({"geocode_coords", "geocode_state"}, {"directions"})
    /\ Precedes({"directions"}, {"price_page"})
    /\ Precedes({"geocode_coords", "geocode_state", "directions", "price_page"},
                {"metrics", "cost", "present"})

\* C10 (amended): the coordinate lookups all come before the routing call;
\* distance, duration and fuel used are computed once the route is there and
\* before price resolution; price resolution comes after the route and is
\* one further geocoder lookup per waypoint followed by the price-page
\* requests; the cost and the presentation come after all of these.
C10_Phases ==
    /\ Precedes({"geocode_coords"}, {"directions"})
    /\ Precedes({"directions"}, {"metrics", "geocode_state", "price_page", "cost", "present"})
    /\ Precedes({"metrics"}, {"geocode_state", "price_page"})
    /\ Precedes({"geocode_state"}, {"price_page"})
    /\ Precedes({"geocode_coords", "directions", "metrics", "geocode_state", "price_page"},
                {"cost"})
    /\ Precedes({"cost"}, {"present"})
    /\ InTrace("directions") => Len(SelectSeq(trace, IsCoordLookup)) = Len(Waypoints)
    /\ InTrace("cost") => InTrace("directions") /\ InTrace("metrics")
    /\ (script = "app_update" /\ InTrace("cost")) =>
        /\ Len(SelectSeq(trace, IsStateLookup)) = Len(Waypoints)
        /\ Len(SelectSeq(trace, IsPricePage)) = Len(detected_states)
    /\ InTrace("present") => InTrace("cost")
    /\ summary_shown <=> InTrace("present")

\* A request with a stop ran to the end, price page included.
C10_Witness ==
    /\ pc = "done"
    /\ script = "app_update"
    /\ summary_shown
    /\ Len(stops) >= 1
    /\ InTrace("price_page")

\* ----------------------------------------------------- SpecAvg: C3
RECURSIVE SetSum(_, _)
\* The sum of price(s) over the states of S.
SetSum(S, price) ==
    IF S = {} THEN RatZero
    ELSE LET s == CHOOSE x \in S : TRUE
         IN  RatAdd(price[s], SetSum(S \ {s}, price))

\* The distinct regions of the addresses of the list, and those with a price.
RegionsOf(list) ==
    {extract_full_state_name(geo_env[list[i]]) : i \in 1..Len(list)} \ {NoState}
ResolvedOf(list) ==
    {s \in RegionsOf(list) : fetch_aaa_fuel_price(s, fuel_grade, aaa_env) # None}
MeanOf(list) ==
    RatDiv(SetSum(ResolvedOf(list),
                  [s \in ResolvedOf(list) |-> fetch_aaa_fuel_price(s, fuel_grade, aaa_env)[1]]),
           RatInt(Cardinality(ResolvedOf(list))))

\* C3: when at least one region has a price, the result is the mean of the
\* prices of the distinct regions that have one, and it does not change
\* when the list is permuted or an address is repeated; regions without a
\* price are in neither the sum nor the count.
C3_MeanOfDistinctRegions ==
    (pc = "avg_done" /\ ResolvedOf(all_addresses) # {}) =>
        /\ avg_ret = MeanOf(all_addresses)
        /\ avg_ret = avg_first
        /\ Len(FilterPrices(raw_prices)) = Cardinality(ResolvedOf(all_addresses))

\* Three addresses in two regions, one of them repeated, both priced at
\* 3.00 and 3.20: the mean is 3.10.
C3_Witness ==
    /\ pc = "avg_done"
    /\ all_addresses = <<2, 1, 2>>
    /\ Cardinality(RegionsOf(all_addresses)) = 2
    /\ avg_ret = <<31, 10>>

====
